---------------------------- MODULE Spec2Model ----------------------------
(* A model of go-rawurlparser: the parser RawURLParseWithOptions (url.go),  *)
(* the recomposition helpers String / GetRawFullURL, and the in-place       *)
(* mutator UpdateRawURL.  Go strings are modelled as sequences of           *)
(* one-character strings; byte offsets are 0-based as in Go.                *)
EXTENDS Integers, Sequences, FiniteSets

\* ------------------------------------------------------------------ bounds
\* longest free-form text enumerated over the whole alphabet
MaxLen == 4
\* longest text enumerated between the brackets of an IPv6-style host
MaxLit == 2
\* longest query text enumerated over the query alphabet
MaxQuery == 5
\* longest payload text appended to a base URL
MaxPayload == 3
\* number of UpdateRawURL / SetRawRequestURI calls applied to one parse result
MaxUpdates == 2

\* ------------------------------------------------- Go string primitives
Min(S) == CHOOSE x \in S : \A y \in S : x <= y
Max(S) == CHOOSE x \in S : \A y \in S : x >= y

\* s[lo:hi]
Slice(s, lo, hi) == SubSeq(s, lo + 1, hi)
\* s[lo:]
SliceFrom(s, lo) == SubSeq(s, lo + 1, Len(s))

Occurrences(s, sub) ==
    {i \in 0..(Len(s) - Len(sub)) : SubSeq(s, i + 1, i + Len(sub)) = sub}

\* strings.Index: offset of the first occurrence of sub in s, or -1
Index(s, sub) == IF Occurrences(s, sub) = {} THEN -1 ELSE Min(Occurrences(s, sub))

\* strings.LastIndex: offset of the last occurrence of sub in s, or -1
LastIndex(s, sub) == IF Occurrences(s, sub) = {} THEN -1 ELSE Max(Occurrences(s, sub))

\* strings.Contains
Contains(s, sub) == Occurrences(s, sub) # {}

\* strings.HasPrefix
HasPrefix(s, p) == Len(p) <= Len(s) /\ SubSeq(s, 1, Len(p)) = p

Digits == {"0", "1", "2", "3", "4", "5", "6", "7", "8", "9"}

\* ------------------------------------------------------------- the types
ErrNil == "nil"
ErrEmptyURL == "empty URL"
ErrInvalidURL == "invalid URL format"

\* a nil *Userinfo is the empty sequence, a non-nil one a one-element sequence
NilUser == <<>>
Userinfo(name, pass, set) ==
    <<[username |-> name, password |-> pass, passwordSet |-> set]>>

\* the zero RawURL with Original set (url.go, result := &RawURL{Original: rawURL})
NewRawURL(rawURL) ==
    [Original |-> rawURL, Scheme |-> <<>>, Opaque |-> <<>>, User |-> NilUser,
     Host |-> <<>>, Hostname |-> <<>>, Port |-> <<>>, Path |-> <<>>,
     Query |-> <<>>, Fragment |-> <<>>, RawRequestURI |-> <<>>]

\* ParseOptions; a nil *ParseOptions has isNil = TRUE
NilOptions ==
    [isNil |-> TRUE, FallbackScheme |-> <<>>, AllowMissingScheme |-> FALSE]
DefaultOptions ==
    [isNil |-> FALSE, FallbackScheme |-> <<"h", "t", "t", "p", "s">>, AllowMissingScheme |-> TRUE]

\* ------------------------------------------------------------ SplitHostPort
\* validOptionalPort without the digit test
validOptionalPort_AnySuffix(port) ==
    IF port = <<>> THEN TRUE ELSE port[1] = ":"

validOptionalPort(port) ==
    IF port = <<>> THEN TRUE
    ELSE IF port[1] # ":" THEN FALSE
    ELSE \A i \in 2..Len(port) : port[i] \in Digits

SplitHostPort(hostPort) ==
    LET closeBracket == Index(hostPort, <<"]">>)
        colon == LastIndex(hostPort, <<":">>)
    IN  IF HasPrefix(hostPort, <<"[">>) /\ closeBracket # -1
        THEN [host |-> Slice(hostPort, 1, closeBracket),
              port |-> IF Len(hostPort) > closeBracket + 1
                          /\ hostPort[closeBracket + 2] = ":"
                       THEN SliceFrom(hostPort, closeBracket + 2)
                       ELSE <<>>]
        ELSE IF colon # -1 /\ validOptionalPort(SliceFrom(hostPort, colon))
        THEN [host |-> Slice(hostPort, 0, colon),
              port |-> SliceFrom(hostPort, colon + 1)]
        ELSE [host |-> hostPort, port |-> <<>>]

\* ------------------------------------------ RawURLParseWithOptions, by step
\* ParseScheme with the '.' test of the opaque heuristic left out
ParseScheme_DotIgnored(rawURL, opts) ==
    LET schemeEnd == Index(rawURL, <<":", "/", "/">>)
        colonIndex == Index(rawURL, <<":">>)
        beforeColon == Slice(rawURL, 0, colonIndex)
    IN  IF schemeEnd # -1
        THEN [kind |-> "hier", Scheme |-> Slice(rawURL, 0, schemeEnd),
              Opaque |-> <<>>, remaining |-> SliceFrom(rawURL, schemeEnd + 3)]
        ELSE IF colonIndex # -1 /\ ~Contains(beforeColon, <<"/">>)
        THEN [kind |-> "opaque", Scheme |-> beforeColon,
              Opaque |-> SliceFrom(rawURL, colonIndex + 1), remaining |-> <<>>]
        ELSE [kind |-> "hier",
              Scheme |-> IF ~opts.isNil /\ opts.AllowMissingScheme
                         THEN opts.FallbackScheme ELSE <<>>,
              Opaque |-> <<>>, remaining |-> rawURL]

\* url.go 69-91: the scheme.  kind is "hier" (continue with remaining),
\* or "opaque" (return at once).
ParseScheme(rawURL, opts) ==
    LET schemeEnd == Index(rawURL, <<":", "/", "/">>)
        colonIndex == Index(rawURL, <<":">>)
        beforeColon == Slice(rawURL, 0, colonIndex)
    IN  IF schemeEnd # -1
        THEN [kind |-> "hier", Scheme |-> Slice(rawURL, 0, schemeEnd),
              Opaque |-> <<>>, remaining |-> SliceFrom(rawURL, schemeEnd + 3)]
        ELSE IF colonIndex # -1 /\ ~Contains(beforeColon, <<"/">>)
                                /\ ~Contains(beforeColon, <<".">>)
        THEN [kind |-> "opaque", Scheme |-> beforeColon,
              Opaque |-> SliceFrom(rawURL, colonIndex + 1), remaining |-> <<>>]
        ELSE [kind |-> "hier",
              Scheme |-> IF ~opts.isNil /\ opts.AllowMissingScheme
                         THEN opts.FallbackScheme ELSE <<>>,
              Opaque |-> <<>>, remaining |-> rawURL]

\* url.go 93-101: split the authority from the path
\* SplitAuthority leaving the remainder empty when there is no '/'
SplitAuthority_NoDefaultPath(remaining) ==
    LET pathStart == Index(remaining, <<"/">>)
    IN  IF pathStart # -1
        THEN [authority |-> Slice(remaining, 0, pathStart),
              remaining |-> SliceFrom(remaining, pathStart)]
        ELSE [authority |-> remaining, remaining |-> <<>>]

\* SplitAuthority cutting at the last '/' in place of the first
SplitAuthority_AtLastSlash(remaining) ==
    LET pathStart == LastIndex(remaining, <<"/">>)
    IN  IF pathStart # -1
        THEN [authority |-> Slice(remaining, 0, pathStart),
              remaining |-> SliceFrom(remaining, pathStart)]
        ELSE [authority |-> remaining, remaining |-> <<"/">>]

SplitAuthority(remaining) ==
    LET pathStart == Index(remaining, <<"/">>)
    IN  IF pathStart # -1
        THEN [authority |-> Slice(remaining, 0, pathStart),
              remaining |-> SliceFrom(remaining, pathStart)]
        ELSE [authority |-> remaining, remaining |-> <<"/">>]

\* ParseUserinfo taking an empty password for no password
ParseUserinfo_EmptyIsUnset(authority) ==
    LET atIndex == Index(authority, <<"@">>)
        userinfo == Slice(authority, 0, atIndex)
        colonIndex == Index(userinfo, <<":">>)
    IN  IF atIndex # -1
        THEN [authority |-> SliceFrom(authority, atIndex + 1),
              User |-> IF colonIndex # -1
                       THEN Userinfo(Slice(userinfo, 0, colonIndex),
                                     SliceFrom(userinfo, colonIndex + 1),
                                     SliceFrom(userinfo, colonIndex + 1) # <<>>)
                       ELSE Userinfo(userinfo, <<>>, FALSE)]
        ELSE [authority |-> authority, User |-> NilUser]

\* url.go 103-116: userinfo before the first '@'
ParseUserinfo(authority) ==
    LET atIndex == Index(authority, <<"@">>)
        userinfo == Slice(authority, 0, atIndex)
        colonIndex == Index(userinfo, <<":">>)
    IN  IF atIndex # -1
        THEN [authority |-> SliceFrom(authority, atIndex + 1),
              User |-> IF colonIndex # -1
                       THEN Userinfo(Slice(userinfo, 0, colonIndex),
                                     SliceFrom(userinfo, colonIndex + 1), TRUE)
                       ELSE Userinfo(userinfo, <<>>, FALSE)]
        ELSE [authority |-> authority, User |-> NilUser]

\* url.go 118-137: the host; ok = FALSE is the ErrInvalidURL return
ParseHost(authority) ==
    LET closeBracket == LastIndex(authority, <<"]">>)
    IN  IF HasPrefix(authority, <<"[">>)
        THEN IF closeBracket = -1
             THEN [ok |-> FALSE, Host |-> <<>>]
             ELSE IF Len(authority) > closeBracket + 1
                     /\ authority[closeBracket + 2] = ":"
             THEN [ok |-> TRUE, Host |-> authority]
             ELSE [ok |-> TRUE, Host |-> Slice(authority, 0, closeBracket + 1)]
        ELSE [ok |-> TRUE, Host |-> authority]

\* SplitHostnamePort with the port of a bracketed host cut one byte early
SplitHostnamePort_PortWithColon(Host) ==
    LET closeBracket == LastIndex(Host, <<"]">>)
    IN  IF Host = <<>> THEN [Hostname |-> <<>>, Port |-> <<>>]
        ELSE IF HasPrefix(Host, <<"[">>)
        THEN IF closeBracket # -1
             THEN [Hostname |-> Slice(Host, 0, closeBracket + 1),
                   Port |-> IF Len(Host) > closeBracket + 1
                               /\ Host[closeBracket + 2] = ":"
                            THEN SliceFrom(Host, closeBracket + 1)
                            ELSE <<>>]
             ELSE [Hostname |-> Host, Port |-> <<>>]
        ELSE [Hostname |-> SplitHostPort(Host).host,
              Port |-> SplitHostPort(Host).port]

\* url.go 139-158: split Host into Hostname and Port
SplitHostnamePort(Host) ==
    LET closeBracket == LastIndex(Host, <<"]">>)
    IN  IF Host = <<>> THEN [Hostname |-> <<>>, Port |-> <<>>]
        ELSE IF HasPrefix(Host, <<"[">>)
        THEN IF closeBracket # -1
             THEN [Hostname |-> Slice(Host, 0, closeBracket + 1),
                   Port |-> IF Len(Host) > closeBracket + 1
                               /\ Host[closeBracket + 2] = ":"
                            THEN SliceFrom(Host, closeBracket + 2)
                            ELSE <<>>]
             ELSE [Hostname |-> Host, Port |-> <<>>]
        ELSE [Hostname |-> SplitHostPort(Host).host,
              Port |-> SplitHostPort(Host).port]

\* ParsePathQueryFragment with the query cut before the fragment
ParsePathQueryFragment_QueryFirst(remaining) ==
    LET queryIndex == Index(remaining, <<"?">>)
        rem1 == IF queryIndex # -1 THEN Slice(remaining, 0, queryIndex) ELSE remaining
        query == IF queryIndex # -1 THEN SliceFrom(remaining, queryIndex + 1) ELSE <<>>
        hashInQuery == Index(query, <<"#">>)
        hashInPath == Index(rem1, <<"#">>)
    IN  IF Len(remaining) > 0
        THEN [Fragment |-> IF hashInPath # -1 THEN SliceFrom(rem1, hashInPath + 1)
                           ELSE IF hashInQuery # -1
                           THEN SliceFrom(query, hashInQuery + 1) ELSE <<>>,
              Query |-> IF hashInQuery # -1 /\ hashInPath = -1
                        THEN Slice(query, 0, hashInQuery) ELSE query,
              Path |-> IF hashInPath # -1 THEN Slice(rem1, 0, hashInPath) ELSE rem1]
        ELSE [Fragment |-> <<>>, Query |-> <<>>, Path |-> <<"/">>]

\* url.go 160-179: fragment first, then query, the rest is the path
ParsePathQueryFragment(remaining) ==
    LET hashIndex == Index(remaining, <<"#">>)
        rem1 == IF hashIndex # -1 THEN Slice(remaining, 0, hashIndex) ELSE remaining
        queryIndex == Index(rem1, <<"?">>)
    IN  IF Len(remaining) > 0
        THEN [Fragment |-> IF hashIndex # -1
                           THEN SliceFrom(remaining, hashIndex + 1) ELSE <<>>,
              Query |-> IF queryIndex # -1
                        THEN SliceFrom(rem1, queryIndex + 1) ELSE <<>>,
              Path |-> IF queryIndex # -1
                       THEN Slice(rem1, 0, queryIndex) ELSE rem1]
        ELSE [Fragment |-> <<>>, Query |-> <<>>, Path |-> <<"/">>]

\* BuildRawRequestURI leaving the fragment out
BuildRawRequestURI_WithoutFragment(Path, Query, Fragment) ==
    Path \o (IF Query # <<>> THEN <<"?">> \o Query ELSE <<>>)

\* url.go 181-188
BuildRawRequestURI(Path, Query, Fragment) ==
    Path \o (IF Query # <<>> THEN <<"?">> \o Query ELSE <<>>)
         \o (IF Fragment # <<>> THEN <<"#">> \o Fragment ELSE <<>>)

\* Original taken from the text left after the scheme
OriginalOf_AfterScheme(rawURL) ==
    IF Index(rawURL, <<":", "/", "/">>) # -1
    THEN SliceFrom(rawURL, Index(rawURL, <<":", "/", "/">>) + 3)
    ELSE rawURL

\* the value of result.Original (url.go 65-67)
OriginalOf(rawURL) == rawURL

\* the invalid-host return handing out the half-built result with the error
InvalidHostReturn_KeepsResult(result) == [url |-> <<result>>, err |-> ErrInvalidURL]

\* url.go 119-123: what is returned when '[' has no ']'
InvalidHostReturn(result) == [url |-> <<>>, err |-> ErrInvalidURL]

\* the opaque form falling through to the path default instead of returning
OpaqueReturn_WithDefaultPath(result, sch) ==
    [url |-> <<[result EXCEPT !.Scheme = sch.Scheme, !.Opaque = sch.Opaque,
                              !.Path = <<"/">>, !.RawRequestURI = <<"/">>]>>,
     err |-> ErrNil]

\* url.go 76-85: what is returned for the opaque form
OpaqueReturn(result, sch) ==
    [url |-> <<[result EXCEPT !.Scheme = sch.Scheme, !.Opaque = sch.Opaque]>>,
     err |-> ErrNil]

\* url.go 60-191.  The returned pair (url, err): url is <<>> for nil.
RawURLParseWithOptions(rawURL, opts) ==
    IF Len(rawURL) = 0 THEN [url |-> <<>>, err |-> ErrEmptyURL]
    ELSE
    LET result == [NewRawURL(rawURL) EXCEPT !.Original = OriginalOf(rawURL)]
        sch == ParseScheme(rawURL, opts)
        spl == SplitAuthority(sch.remaining)
        usr == ParseUserinfo(spl.authority)
        hst == ParseHost(usr.authority)
        hp  == SplitHostnamePort(hst.Host)
        pqf == ParsePathQueryFragment(spl.remaining)
    IN  IF sch.kind = "opaque" THEN OpaqueReturn(result, sch)
        ELSE IF ~hst.ok THEN InvalidHostReturn(result)
        ELSE [url |-> <<[result EXCEPT
                           !.Scheme = sch.Scheme,
                           !.User = usr.User,
                           !.Host = hst.Host,
                           !.Hostname = hp.Hostname,
                           !.Port = hp.Port,
                           !.Path = pqf.Path,
                           !.Query = pqf.Query,
                           !.Fragment = pqf.Fragment,
                           !.RawRequestURI =
                               BuildRawRequestURI(pqf.Path, pqf.Query, pqf.Fragment)]>>,
              err |-> ErrNil]

\* url.go 194-196
RawURLParse(rawURL) == RawURLParseWithOptions(rawURL, DefaultOptions)
\* url.go 199-201
RawURLParseStrict(rawURL) == RawURLParseWithOptions(rawURL, NilOptions)

\* ------------------------------------------------------------ recomposition
\* helpers GetAuthority: userinfo@ (if User is set) followed by Host
\* GetAuthority writing ':' only in front of a non-empty password
GetAuthority_OmitsEmptyPassword(url) ==
    (IF url.User # NilUser
     THEN url.User[1].username
          \o (IF url.User[1].passwordSet /\ url.User[1].password # <<>>
              THEN <<":">> \o url.User[1].password ELSE <<>>)
          \o <<"@">>
     ELSE <<>>)
    \o url.Host

GetAuthority(url) ==
    (IF url.User # NilUser
     THEN url.User[1].username
          \o (IF url.User[1].passwordSet
              THEN <<":">> \o url.User[1].password ELSE <<>>)
          \o <<"@">>
     ELSE <<>>)
    \o url.Host

\* RawURL.String (url.go 273-301)
String(url) ==
    (IF url.Scheme # <<>> THEN url.Scheme \o <<":", "/", "/">> ELSE <<>>)
    \o GetAuthority(url)
    \o url.Path
    \o (IF url.Query # <<>> THEN <<"?">> \o url.Query ELSE <<>>)
    \o (IF url.Fragment # <<>> THEN <<"#">> \o url.Fragment ELSE <<>>)

GetRawUserInfo(url) ==
    IF url.User = NilUser THEN <<>>
    ELSE url.User[1].username
         \o (IF url.User[1].passwordSet
             THEN <<":">> \o url.User[1].password ELSE <<>>)
         \o <<"@">>

GetRawAuthority(url) ==
    (IF url.User # NilUser THEN GetRawUserInfo(url) ELSE <<>>) \o url.Host

\* GetRawPath: "/" for an empty Path, a '/' put before a Path that lacks one
GetRawPath(url) ==
    IF url.Path = <<>> THEN <<"/">>
    ELSE (IF url.Path[1] # "/" THEN <<"/">> ELSE <<>>) \o url.Path

GetRawFullURL(url) ==
    (IF url.Scheme # <<>> THEN url.Scheme \o <<":", "/", "/">> ELSE <<>>)
    \o GetRawAuthority(url)
    \o GetRawPath(url)
    \o (IF url.Query # <<>> THEN <<"?">> \o url.Query ELSE <<>>)
    \o (IF url.Fragment # <<>> THEN <<"#">> \o url.Fragment ELSE <<>>)

\* GetRawRequestURI ignoring the custom request URI
GetRawRequestURI_AlwaysDerived(url) ==
    url.Path
    \o (IF url.Query # <<>> THEN <<"?">> \o url.Query ELSE <<>>)
    \o (IF url.Fragment # <<>> THEN <<"#">> \o url.Fragment ELSE <<>>)

GetRawRequestURI(url) ==
    IF url.RawRequestURI # <<>> THEN url.RawRequestURI
    ELSE url.Path
         \o (IF url.Query # <<>> THEN <<"?">> \o url.Query ELSE <<>>)
         \o (IF url.Fragment # <<>> THEN <<"#">> \o url.Fragment ELSE <<>>)

GetRawAbsoluteURI(url) ==
    (IF url.Scheme # <<>> THEN url.Scheme \o <<":", "/", "/">> ELSE <<>>)
    \o GetRawAuthority(url)
    \o GetRawRequestURI(url)

\* RawURL.GetHostname (url.go 210-230)
GetHostname(url) ==
    LET host == url.Host
        closeBracket == LastIndex(host, <<"]">>)
        i == LastIndex(host, <<":">>)
    IN  IF HasPrefix(host, <<"[">>)
        THEN IF closeBracket # -1
             THEN IF Len(host) > closeBracket + 1 /\ host[closeBracket + 2] = ":"
                  THEN Slice(host, 0, closeBracket + 1)
                  ELSE host
             ELSE host
        ELSE IF i # -1 THEN Slice(host, 0, i) ELSE host

\* RawURL.GetPort (url.go 234-260)
GetPort(url) ==
    LET host == url.Host
        closeBracket == LastIndex(host, <<"]">>)
        i == LastIndex(host, <<":">>)
        port == SliceFrom(host, i + 1)
    IN  IF HasPrefix(host, <<"[">>)
        THEN IF closeBracket # -1
                /\ Len(host) > closeBracket + 1 /\ host[closeBracket + 2] = ":"
             THEN SliceFrom(host, closeBracket + 2)
             ELSE <<>>
        ELSE IF i # -1
        THEN IF \A k \in 1..Len(port) : port[k] \in Digits THEN port ELSE <<>>
        ELSE <<>>

\* ------------------------------------------------------------ query values
\* strings.Split(s, sep) for a one-byte separator: always at least one piece
RECURSIVE Split(_, _)
Split(s, sep) ==
    IF Index(s, sep) = -1 THEN <<s>>
    ELSE <<Slice(s, 0, Index(s, sep))>> \o Split(SliceFrom(s, Index(s, sep) + 1), sep)

\* the pair cut at every '=' instead of the first one only
SplitKeyValue_EveryEquals(pair) == Split(pair, <<"=">>)

\* strings.SplitN(pair, "=", 2): one piece without '=', else two
SplitKeyValue(pair) ==
    IF Index(pair, <<"=">>) = -1 THEN <<pair>>
    ELSE <<Slice(pair, 0, Index(pair, <<"=">>)),
           SliceFrom(pair, Index(pair, <<"=">>) + 1)>>

\* the empty map[string][]string
EmptyValues == [k \in {} |-> <<>>]

\* values[key] = append(values[key], value)
AppendValue(values, key, value) ==
    [k \in DOMAIN values \cup {key} |->
        IF k = key
        THEN IF key \in DOMAIN values THEN Append(values[key], value) ELSE <<value>>
        ELSE values[k]]

\* the loop of GetQueryValues over the pairs, empty pairs skipped
RECURSIVE AddPairs(_, _)
AddPairs(values, pairs) ==
    IF pairs = <<>> THEN values
    ELSE LET pair == Head(pairs)
             kv == SplitKeyValue(pair)
             value == IF Len(kv) = 2 THEN kv[2] ELSE <<>>
         IN  IF pair = <<>> THEN AddPairs(values, Tail(pairs))
             ELSE AddPairs(AppendValue(values, kv[1], value), Tail(pairs))

\* RawURL.GetQueryValues: the map from key to its values in order
GetQueryValues(url) == AddPairs(EmptyValues, Split(url.Query, <<"&">>))

\* ------------------------------------------------------------------ mutator
\* URLComponent (iota constants)
Scheme == 0
Username == 1
Password == 2
Host == 3
Port == 4
Path == 5
Query == 6
Fragment == 7
RawURI == 8
URLComponents == Scheme..RawURI
\* a URLComponent value that is none of the declared constants
UnknownComponent == RawURI + 1

\* u.User after "if u.User == nil { u.User = &Userinfo{} }"
EnsureUser(url) == IF url.User = NilUser THEN Userinfo(<<>>, <<>>, FALSE) ELSE url.User

\* UpdateRawURL whose Path case also empties Query
UpdateRawURL_PathDropsQuery(url, component, newValue) ==
    CASE component = Scheme -> [url EXCEPT !.Scheme = newValue]
      [] component = Username ->
            [url EXCEPT !.User = <<[EnsureUser(url)[1] EXCEPT !.username = newValue]>>]
      [] component = Password ->
            [url EXCEPT !.User = <<[EnsureUser(url)[1] EXCEPT !.password = newValue,
                                                             !.passwordSet = TRUE]>>]
      [] component = Host ->
            [url EXCEPT !.Host = IF GetPort(url) # <<>>
                                 THEN newValue \o <<":">> \o GetPort(url)
                                 ELSE newValue]
      [] component = Port ->
            [url EXCEPT !.Host = IF newValue # <<>>
                                 THEN GetHostname(url) \o <<":">> \o newValue
                                 ELSE GetHostname(url)]
      [] component = Path ->
            [url EXCEPT !.Path = newValue, !.Query = <<>>, !.RawRequestURI = <<>>]
      [] component = Query -> [url EXCEPT !.Query = newValue, !.RawRequestURI = <<>>]
      [] component = Fragment ->
            [url EXCEPT !.Fragment = newValue, !.RawRequestURI = <<>>]
      [] component = RawURI -> [url EXCEPT !.RawRequestURI = newValue]
      [] OTHER -> url

\* UpdateRawURL whose Query case leaves the custom request URI in place
UpdateRawURL_QueryKeepsURI(url, component, newValue) ==
    CASE component = Scheme -> [url EXCEPT !.Scheme = newValue]
      [] component = Username ->
            [url EXCEPT !.User = <<[EnsureUser(url)[1] EXCEPT !.username = newValue]>>]
      [] component = Password ->
            [url EXCEPT !.User = <<[EnsureUser(url)[1] EXCEPT !.password = newValue,
                                                             !.passwordSet = TRUE]>>]
      [] component = Host ->
            [url EXCEPT !.Host = IF GetPort(url) # <<>>
                                 THEN newValue \o <<":">> \o GetPort(url)
                                 ELSE newValue]
      [] component = Port ->
            [url EXCEPT !.Host = IF newValue # <<>>
                                 THEN GetHostname(url) \o <<":">> \o newValue
                                 ELSE GetHostname(url)]
      [] component = Path -> [url EXCEPT !.Path = newValue, !.RawRequestURI = <<>>]
      [] component = Query -> [url EXCEPT !.Query = newValue]
      [] component = Fragment ->
            [url EXCEPT !.Fragment = newValue, !.RawRequestURI = <<>>]
      [] component = RawURI -> [url EXCEPT !.RawRequestURI = newValue]
      [] OTHER -> url

\* RawURL.UpdateRawURL: the RawURL after the call
UpdateRawURL(url, component, newValue) ==
    CASE component = Scheme -> [url EXCEPT !.Scheme = newValue]
      [] component = Username ->
            [url EXCEPT !.User = <<[EnsureUser(url)[1] EXCEPT !.username = newValue]>>]
      [] component = Password ->
            [url EXCEPT !.User = <<[EnsureUser(url)[1] EXCEPT !.password = newValue,
                                                             !.passwordSet = TRUE]>>]
      [] component = Host ->
            [url EXCEPT !.Host = IF GetPort(url) # <<>>
                                 THEN newValue \o <<":">> \o GetPort(url)
                                 ELSE newValue]
      [] component = Port ->
            [url EXCEPT !.Host = IF newValue # <<>>
                                 THEN GetHostname(url) \o <<":">> \o newValue
                                 ELSE GetHostname(url)]
      [] component = Path -> [url EXCEPT !.Path = newValue, !.RawRequestURI = <<>>]
      [] component = Query -> [url EXCEPT !.Query = newValue, !.RawRequestURI = <<>>]
      [] component = Fragment ->
            [url EXCEPT !.Fragment = newValue, !.RawRequestURI = <<>>]
      [] component = RawURI -> [url EXCEPT !.RawRequestURI = newValue]
      [] OTHER -> url

\* SetRawRequestURI that stores nothing
SetRawRequestURI_Ignored(url, uri) == url

\* RawURL.SetRawRequestURI
SetRawRequestURI(url, uri) == UpdateRawURL(url, RawURI, uri)

\* ------------------------------------------------------------------- inputs
\* one character of every class the parser tells apart, and a plain letter
Alphabet == {"a", "1", ":", "/", "?", "#", "@", ".", "[", "]"}

\* every text over the alphabet of at most n characters
Text(n) == UNION {[1..k -> Alphabet] : k \in 0..n}

\* the URLs quoted by the documentation and the tests
Examples ==
    { <<"h", "t", "t", "p", "s", ":", "/", "/", "e", "x", "a", "m", "p", "l", "e", ".", "c", "o", "m", "/", "a", "?", "b", "=", "1", "#", "c", "?", "d", "=", "2">>,
      <<"/", "p", "#", "f", "?", "q", "=", "1">>,
      <<"h", "t", "t", "p", "s", ":", "/", "/", "h", "o", "s", "t", ".", "c", "o", "m", "/", ".", ".", "%", "2", "f", "/", "e", "t", "c", "/", "p", "a", "s", "s", "w", "d">>,
      <<"h", "t", "t", "p", ":", "/", "/", "[", "2", "0", "0", "1", ":", "d", "b", "8", ":", ":", "1", "]", ":", "8", "4", "4", "3", "/", "x">>,
      <<"h", "t", "t", "p", ":", "/", "/", "[", "2", "0", "0", "1", ":", "d", "b", "8", ":", ":", "1", "]", "/", "t", "e", "s", "t">>,
      <<"[", "2", "0", "0", "1", ":", "d", "b", "8", ":", ":", "1", "]", ":", "8", "4", "4", "3", "/", "s", "e", "c", "u", "r", "e">>,
      <<"1", "9", "2", ".", "1", "6", "8", ".", "1", "0", ".", "1", "0", ":", "4", "4", "3", "/", "x", "/", "y">>,
      <<"m", "a", "i", "l", "t", "o", ":", "u", "s", "e", "r", "@", "e", "x", "a", "m", "p", "l", "e", ".", "c", "o", "m">>,
      <<"h", "t", "t", "p", "s", ":", "/", "/", "e", "x", "a", "m", "p", "l", "e", ".", "c", "o", "m", "/", "p", "a", "t", "h", "1", "/", "p", "a", "t", "h", "2", "%", "2", "f", ";", "/", "?", "q", "=", "1", "#", "f">>,
      <<"h", "t", "t", "p", ":", "/", "/", "u", "s", "e", "r", ":", "@", "h", "/", "x">>,
      <<"h", "t", "t", "p", ":", "/", "/", "u", "s", "e", "r", "@", "h", "/", "x">>,
      <<"h", "t", "t", "p", ":", "/", "/", "h", "o", "s", "t", ":", "a", "b", "c", "/", "x">>,
      <<"h", "t", "t", "p", ":", "/", "/", "h", "/", "?", "a", "=", "1", "&", "a", "=", "2", "&", "b">>,
      <<"h", "t", "t", "p", "s", ":", "/", "/", "e", "x", "a", "m", "p", "l", "e", ".", "c", "o", "m", "#">>,
      <<"e", "x", "a", "m", "p", "l", "e", ".", "c", "o", "m", "/", "p", "a", "t", "h">> }

\* bracketed hosts: any text without '/' and '@' between the brackets, then
\* nothing, a port, or a suffix that is no port
Literals == UNION {[1..k -> Alphabet \ {"/", "@"}] : k \in 0..MaxLit}
BracketSuffixes == {<<>>, <<":", "1">>, <<":", "1", "2">>, <<":">>, <<":", "a">>, <<"b">>, <<":", "1", "a">>}
BracketHosts ==
    {<<"[">> \o l \o <<"]">> \o x : l \in Literals, x \in BracketSuffixes}

\* bracketed hosts with and without scheme, userinfo and path
BracketInputs ==
    {s \o i \o h \o t : s \in {<<>>, <<"s", ":", "/", "/">>},
                        i \in {<<>>, <<"u", "@">>, <<"u", ":", "p", "@">>},
                        h \in BracketHosts,
                        t \in {<<>>, <<"/">>, <<"/", "x">>, <<"/", "x", "?", "q", "#", "f">>}}

\* query strings: every text of keys, '=' and '&', behind a host and a path
QueryAlphabet == {"a", "b", "=", "&"}
QueryTexts == UNION {[1..k -> QueryAlphabet] : k \in 0..MaxQuery}
QueryInputs == {<<"s", ":", "/", "/", "h", "/", "?">> \o q : q \in QueryTexts}

\* payloads appended to a base URL, as TestMidPathPayloads builds them:
\* "/" is put in front of a payload that does not start with one
PayloadAlphabet == {"a", "/", "@", ":", "?", "#", ";", "\\", "%", "."}
PayloadTexts == UNION {[1..k -> PayloadAlphabet] : k \in 0..MaxPayload}
WithLeadingSlash(payload) ==
    IF HasPrefix(payload, <<"/">>) THEN payload ELSE <<"/">> \o payload
BaseURL == <<"s", ":", "/", "/", "h">>
PayloadInputs == {BaseURL \o WithLeadingSlash(p) : p \in PayloadTexts}

\* inputs of the parser: free text, free text behind a scheme, bracketed
\* hosts, query strings, payloads behind a base URL, and the examples
ParseInputs ==
    Text(MaxLen) \cup {<<"s", ":", "/", "/">> \o t : t \in Text(MaxLen)}
        \cup BracketInputs \cup QueryInputs \cup PayloadInputs \cup Examples

\* the option settings: nil, the defaults, a fallback that is not allowed,
\* a custom fallback
Options ==
    { NilOptions, DefaultOptions,
      [isNil |-> FALSE, FallbackScheme |-> <<"h", "t", "t", "p", "s">>, AllowMissingScheme |-> FALSE],
      [isNil |-> FALSE, FallbackScheme |-> <<"f", "t", "p">>, AllowMissingScheme |-> TRUE] }

\* the URLs the mutator is exercised on
Seeds ==
    Examples \cup
    { <<"s", ":", "/", "/", "h", "/", "p">>, <<"s", ":", "/", "/", "u", ":", "w", "@", "h", ":", "1", "/", "p", "?", "q", "#", "f">>, <<"s", ":", "/", "/", "[", "a", "]", ":", "1", "/", "p">>, <<"s", ":", "/", "/", "[", "a", "]", "/", "p">>,
      <<"s", ":", "/", "/", "h", ":", "z", "/", "p">>, <<"s", ":", "/", "/", "h">>, <<"s", ":", "/", "/", "h", "/">>, <<"s", ":">>, <<"s", ":", "o">>, <<"h", ".", "a", ":", "1", "/", "p">>,
      <<"h", "/", "p", "?", "q">>, <<"s", ":", "/", "/", "h", "?", "q">>, <<"s", ":", "/", "/", "h", "/", "p", "?", "#">> }

\* the values UpdateRawURL is called with, per component
NewValues(component) ==
    CASE component = Scheme -> {<<>>, <<"t">>}
      [] component = Username -> {<<>>, <<"v">>}
      [] component = Password -> {<<>>, <<"w">>}
      [] component = Host -> {<<>>, <<"b">>, <<"[", "c", "]">>, <<"d", ":", "z">>}
      [] component = Port -> {<<>>, <<"8">>}
      [] component = Path -> {<<>>, <<"/", "n">>, <<"n">>}
      [] component = Query -> {<<>>, <<"k">>}
      [] component = Fragment -> {<<>>, <<"g">>}
      [] component = RawURI -> {<<>>, <<"/", "r">>}
      [] component = UnknownComponent -> {<<"x">>}

\* -------------------------------------------------------------- the machine
VARIABLES
    rawURL,     \* the text handed to the parser
    opts,       \* the *ParseOptions handed to the parser
    u,          \* the returned *RawURL: <<>> for nil, else <<the RawURL>>
    err,        \* the returned error
    pc,         \* "start" before the parse, "parsed" / "failed" after it
    updates,    \* number of mutator calls made on u
    ops         \* the mutator calls made on u, in order: component and value

vars == <<rawURL, opts, u, err, pc, updates, ops>>

InitWith(inputs) ==
    /\ rawURL \in inputs
    /\ opts \in Options
    /\ u = <<>>
    /\ err = ErrNil
    /\ pc = "start"
    /\ updates = 0
    /\ ops = <<>>

\* the caller invokes RawURLParseWithOptions(rawURL, opts)
Parse ==
    /\ pc = "start"
    /\ LET r == RawURLParseWithOptions(rawURL, opts)
       IN  /\ u' = r.url
           /\ err' = r.err
           /\ pc' = IF r.err = ErrNil THEN "parsed" ELSE "failed"
    /\ UNCHANGED <<rawURL, opts, updates, ops>>

\* the caller invokes u.UpdateRawURL(component, newValue) with any tag but
\* RawURI, a tag that is none of the declared constants included
Update ==
    /\ pc = "parsed"
    /\ updates < MaxUpdates
    /\ \E component \in (URLComponents \ {RawURI}) \cup {UnknownComponent} :
           \E newValue \in NewValues(component) :
               /\ u' = <<UpdateRawURL(u[1], component, newValue)>>
               /\ ops' = Append(ops, [component |-> component, value |-> newValue])
    /\ updates' = updates + 1
    /\ UNCHANGED <<rawURL, opts, err, pc>>

\* the caller invokes u.SetRawRequestURI(uri)
SetURI ==
    /\ pc = "parsed"
    /\ updates < MaxUpdates
    /\ \E uri \in NewValues(RawURI) :
           /\ u' = <<SetRawRequestURI(u[1], uri)>>
           /\ ops' = Append(ops, [component |-> RawURI, value |-> uri])
    /\ updates' = updates + 1
    /\ UNCHANGED <<rawURL, opts, err, pc>>

\* parse, then mutate
Init == InitWith(Seeds)
Next == Parse \/ Update \/ SetURI
Spec == Init /\ [][Next]_vars

\* parse only, over every enumerated input
InitParse == InitWith(ParseInputs)
NextParse == Parse
SpecParse == InitParse /\ [][NextParse]_vars

\* ------------------------------------------------- the claims' vocabulary
\* These definitions read the input text directly, independently of the
\* parser's steps above.

\* positions (1-based) of the characters of s that belong to set
PositionsOf(s, set) == {i \in 1..Len(s) : s[i] \in set}

\* the text of s before its first character from set (all of s if none)
Before(s, set) ==
    IF PositionsOf(s, set) = {} THEN s
    ELSE SubSeq(s, 1, Min(PositionsOf(s, set)) - 1)

\* the text of s after its first character from set (empty if none)
After(s, set) ==
    IF PositionsOf(s, set) = {} THEN <<>>
    ELSE SubSeq(s, Min(PositionsOf(s, set)) + 1, Len(s))

\* s from its first character from set on (empty if none)
From(s, set) ==
    IF PositionsOf(s, set) = {} THEN <<>>
    ELSE SubSeq(s, Min(PositionsOf(s, set)), Len(s))

\* s contains "://"
HasSchemeDelimiter(s) ==
    \E i \in 1..(Len(s) - 2) : s[i] = ":" /\ s[i + 1] = "/" /\ s[i + 2] = "/"

\* position of the ':' of the first "://"
SchemeDelimiterAt(s) ==
    Min({i \in 1..(Len(s) - 2) : s[i] = ":" /\ s[i + 1] = "/" /\ s[i + 2] = "/"})

\* the text before / after the first "://"
SchemeText(s) == SubSeq(s, 1, SchemeDelimiterAt(s) - 1)
AfterSchemeDelimiter(s) == SubSeq(s, SchemeDelimiterAt(s) + 3, Len(s))

\* the opaque heuristic: no "://", and a ':' with neither '/' nor '.' before it
OpaqueForm(s) ==
    /\ ~HasSchemeDelimiter(s)
    /\ \E i \in 1..Len(s) :
           s[i] = ":" /\ \A j \in 1..(i - 1) : s[j] \notin {"/", "."}

\* the text the authority and the path are split from
HierText(s) == IF HasSchemeDelimiter(s) THEN AfterSchemeDelimiter(s) ELSE s

\* the authority, and the host text inside it (after the first '@')
AuthorityText(s) == Before(HierText(s), {"/"})
HostText(s) ==
    IF PositionsOf(AuthorityText(s), {"@"}) = {} THEN AuthorityText(s)
    ELSE After(AuthorityText(s), {"@"})

\* the path+query+fragment remainder: from the first '/' after the authority
TailText(s) == From(HierText(s), {"/"})

\* the parse succeeded and u holds its result
Parsed == pc = "parsed" /\ updates = 0
\* the parse has returned
Returned == pc # "start"

EmptyFields(url) ==
    /\ url.User = NilUser /\ url.Host = <<>> /\ url.Hostname = <<>>
    /\ url.Port = <<>> /\ url.Path = <<>> /\ url.Query = <<>>
    /\ url.Fragment = <<>> /\ url.RawRequestURI = <<>>

\* ----------------------------------------------------------------- claims

\* C1: an input that contains "://", parses without error, has a host that
\* does not start with '[' and has a '/' after the authority is reproduced
\* byte for byte by String() and by GetRawFullURL().
C1_RoundTripIdentity ==
    (/\ Parsed
     /\ HasSchemeDelimiter(rawURL)
     /\ ~HasPrefix(HostText(rawURL), <<"[">>)
     /\ TailText(rawURL) # <<>>)
    => /\ String(u[1]) = rawURL
       /\ GetRawFullURL(u[1]) = rawURL

\* C2: Original is the exact input after every successful parse and stays so
\* under every sequence of UpdateRawURL / SetRawRequestURI calls.
C2_OriginalIsInput == pc = "parsed" => u[1].Original = rawURL

C2_Witness ==
    /\ pc = "parsed" /\ updates >= 2
    /\ rawURL = <<"s", ":", "/", "/", "u", ":", "w", "@", "h", ":", "1", "/", "p", "?", "q", "#", "f">>
    /\ u[1].Scheme = <<"t">>
    /\ u[1].RawRequestURI = <<"/", "r">>
    /\ u[1].Original = rawURL

\* C3: for scheme://authority followed by a '/'-initial remainder, Path is
\* the remainder up to its first '?' or '#', and Scheme, Host, Query and
\* Fragment are the corresponding raw texts of the input.
C3_RawComponents ==
    (/\ Parsed
     /\ HasSchemeDelimiter(rawURL)
     /\ TailText(rawURL) # <<>>)
    => /\ u[1].Path = Before(TailText(rawURL), {"?", "#"})
       /\ u[1].Scheme = SchemeText(rawURL)
       /\ u[1].Host = HostText(rawURL)
       /\ u[1].Query = After(Before(TailText(rawURL), {"#"}), {"?"})
       /\ u[1].Fragment = After(TailText(rawURL), {"#"})

\* C4: in the remainder after the authority the fragment is cut at the first
\* '#' before the query is cut at the first '?': Fragment is everything after
\* the first '#', Query lies wholly before it.
C4_FragmentBeforeQuery ==
    (Parsed /\ ~OpaqueForm(rawURL) /\ TailText(rawURL) # <<>>)
    => /\ u[1].Fragment = After(TailText(rawURL), {"#"})
       /\ u[1].Query = After(Before(TailText(rawURL), {"#"}), {"?"})
       /\ ~Contains(u[1].Query, <<"#">>)

C4_Witness ==
    /\ Parsed
    /\ rawURL = <<"h", "t", "t", "p", "s", ":", "/", "/", "e", "x", "a", "m", "p", "l", "e", ".", "c", "o", "m", "/", "a", "?", "b", "=", "1", "#", "c", "?", "d", "=", "2">>
    /\ u[1].Query = <<"b", "=", "1">>
    /\ u[1].Fragment = <<"c", "?", "d", "=", "2">>

OpaqueIsSet(url) == url.Opaque # <<>>
HierarchicalIsSet(url) ==
    \/ url.Host # <<>> \/ url.Path # <<>> \/ url.Query # <<>>
    \/ url.Fragment # <<>> \/ url.User # NilUser

C6_OpaqueXorHierarchical ==
    pc = "parsed" =>
        \/ OpaqueIsSet(u[1]) /\ ~HierarchicalIsSet(u[1])
        \/ ~OpaqueIsSet(u[1]) /\ HierarchicalIsSet(u[1])

\* the input scheme://[literal]:digits/path, literal without '/' and '@'
BracketClose(a) ==
    CHOOSE k \in 2..(Len(a) - 2) :
        /\ a[k] = "]" /\ a[k + 1] = ":"
        /\ \A i \in (k + 2)..Len(a) : a[i] \in Digits
BracketPortForm(s) ==
    /\ HasSchemeDelimiter(s)
    /\ TailText(s) # <<>>
    /\ PositionsOf(AuthorityText(s), {"@"}) = {}
    /\ HasPrefix(AuthorityText(s), <<"[">>)
    /\ \E k \in 2..(Len(AuthorityText(s)) - 2) :
           /\ AuthorityText(s)[k] = "]" /\ AuthorityText(s)[k + 1] = ":"
           /\ \A i \in (k + 2)..Len(AuthorityText(s)) : AuthorityText(s)[i] \in Digits
BracketLiteral(s) == SubSeq(AuthorityText(s), 2, BracketClose(AuthorityText(s)) - 1)
BracketDigits(s) ==
    SubSeq(AuthorityText(s), BracketClose(AuthorityText(s)) + 2, Len(AuthorityText(s)))

C8_StrictRejectsMissingScheme ==
    (/\ Returned
     /\ opts.isNil \/ ~opts.AllowMissingScheme
     /\ ~HasSchemeDelimiter(rawURL)
     /\ ~OpaqueForm(rawURL))
    => /\ pc = "failed"
       /\ u = <<>>
       /\ err # ErrNil

\* the inputs the fallback scheme is for, parsed with AllowMissingScheme
FallbackCase ==
    /\ Returned /\ updates = 0
    /\ rawURL # <<>>
    /\ ~HasSchemeDelimiter(rawURL)
    /\ ~OpaqueForm(rawURL)
    /\ ~opts.isNil /\ opts.AllowMissingScheme

\* the result is hierarchical, carries the fallback scheme, and its
\* authority and path are split from the whole input: the path starts at the
\* first '/' of the input ("/" if there is none), a host that does not start
\* with '[' is the text before it (after any userinfo), and user and host
\* are those the same text yields behind an explicit scheme
FallbackResult ==
    /\ pc = "parsed"
    /\ u[1].Opaque = <<>>
    /\ u[1].Scheme = opts.FallbackScheme
    /\ u[1].Path = IF TailText(rawURL) # <<>>
                   THEN Before(TailText(rawURL), {"?", "#"}) ELSE <<"/">>
    /\ ~HasPrefix(HostText(rawURL), <<"[">>) => u[1].Host = HostText(rawURL)
    /\ LET e == RawURLParseWithOptions(<<"x", ":", "/", "/">> \o rawURL, opts).url[1]
       IN  /\ u[1].User = e.User /\ u[1].Host = e.Host
           /\ u[1].Query = e.Query /\ u[1].Fragment = e.Fragment

\* the host text starts with '[' and has no ']'
UnclosedBracket(s) ==
    HasPrefix(HostText(s), <<"[">>) /\ PositionsOf(HostText(s), {"]"}) = {}

\* C9 (as claimed): every non-empty input without "://" that has no ':' or
\* has a '/' or '.' before its first ':' yields, with AllowMissingScheme, a
\* hierarchical result with Scheme = FallbackScheme, split from the whole
\* input.
C9_FallbackAlways == FallbackCase => FallbackResult

\* C9 (amended): the same, unless the host text starts with '[' and has no
\* ']': then the parse fails with ErrInvalidURL.
C9_FallbackUnlessInvalidHost ==
    FallbackCase =>
        IF UnclosedBracket(rawURL)
        THEN pc = "failed" /\ err = ErrInvalidURL /\ u = <<>>
        ELSE FallbackResult

C9_Witness ==
    /\ Parsed
    /\ rawURL = <<"1", "9", "2", ".", "1", "6", "8", ".", "1", "0", ".", "1", "0", ":", "4", "4", "3", "/", "x", "/", "y">>
    /\ opts = DefaultOptions
    /\ u[1].Scheme = <<"h", "t", "t", "p", "s">>
    /\ u[1].Host = <<"1", "9", "2", ".", "1", "6", "8", ".", "1", "0", ".", "1", "0", ":", "4", "4", "3">>
    /\ u[1].Path = <<"/", "x", "/", "y">>

\* C10: the parser returns either a RawURL and no error, or an error and no
\* RawURL; the empty input fails with ErrEmptyURL under every option setting.
C10_AtomicOutcome ==
    Returned =>
        /\ \/ u # <<>> /\ err = ErrNil /\ pc = "parsed"
           \/ u = <<>> /\ err # ErrNil /\ pc = "failed"
        /\ rawURL = <<>> => (u = <<>> /\ err = ErrEmptyURL)

C10_Witness ==
    /\ pc = "failed"
    /\ u = <<>>
    /\ err = ErrInvalidURL
    /\ HasPrefix(HostText(rawURL), <<"[">>)

\* C11: an input whose host text starts with '[' and has no ']' fails with
\* ErrInvalidURL and returns no RawURL, with or without a scheme, with or
\* without userinfo before the host.
C11_UnclosedBracketFails ==
    (Returned /\ UnclosedBracket(rawURL))
    => /\ pc = "failed"
       /\ err = ErrInvalidURL
       /\ u = <<>>

\* the text after the last ':' of s is all digits (s has a ':')
NumericPortSuffix(s) ==
    /\ PositionsOf(s, {":"}) # {}
    /\ \A i \in (Max(PositionsOf(s, {":"})) + 1)..Len(s) : s[i] \in Digits

UserinfoText(s) == Before(AuthorityText(s), {"@"})

\* C13: when the authority contains '@', the userinfo before the first '@'
\* is split at its first ':'; passwordSet is TRUE exactly when that ':' is
\* there, even with nothing after it, and the recomposed authority writes
\* "user:@" for an empty password and "user@" for none.
C13_PasswordSetIffColon ==
    (/\ Parsed /\ ~OpaqueForm(rawURL)
     /\ PositionsOf(AuthorityText(rawURL), {"@"}) # {})
    => /\ u[1].User # NilUser
       /\ u[1].User[1].username = Before(UserinfoText(rawURL), {":"})
       /\ u[1].User[1].password = After(UserinfoText(rawURL), {":"})
       /\ u[1].User[1].passwordSet = (PositionsOf(UserinfoText(rawURL), {":"}) # {})
       /\ GetAuthority(u[1]) = UserinfoText(rawURL) \o <<"@">> \o u[1].Host

C13_Witness ==
    /\ Parsed
    /\ rawURL = <<"h", "t", "t", "p", ":", "/", "/", "u", "s", "e", "r", ":", "@", "h", "/", "x">>
    /\ u[1].User[1].passwordSet
    /\ u[1].User[1].password = <<>>
    /\ GetAuthority(u[1]) = <<"u", "s", "e", "r", ":", "@", "h">>

\* the '&'-separated pairs of a query text, read off the positions of '&'
PairCuts(q) == {0} \cup PositionsOf(q, {"&"}) \cup {Len(q) + 1}
NthOf(S, n) == CHOOSE c \in S : Cardinality({d \in S : d < c}) = n - 1
PairsOf(q) ==
    [i \in 1..(Cardinality(PairCuts(q)) - 1) |->
        SubSeq(q, NthOf(PairCuts(q), i) + 1, NthOf(PairCuts(q), i + 1) - 1)]
KeyOf(pair) == Before(pair, {"="})
ValueOf(pair) == After(pair, {"="})

\* the map in which every pair whose index is in counted adds its value to
\* its key's sequence, in order of appearance
ValuesOfPairs(q, counted) ==
    [k \in {KeyOf(PairsOf(q)[i]) : i \in counted} |->
        LET mine == {i \in counted : KeyOf(PairsOf(q)[i]) = k}
        IN  [j \in 1..Cardinality(mine) |-> ValueOf(PairsOf(q)[NthOf(mine, j)])]]

\* C14 (as claimed): every '&'-separated pair of a non-empty query adds
\* exactly one value to its key's sequence, in order of appearance: the key
\* is the text before the pair's first '=', the value the text after it
\* (later '=' kept), or empty without '='.
C14_EveryPairCounts ==
    (Parsed /\ u[1].Query # <<>>)
    => GetQueryValues(u[1])
           = ValuesOfPairs(u[1].Query, DOMAIN PairsOf(u[1].Query))

\* C14 (amended): every non-empty '&'-separated pair adds exactly one value
\* to its key's sequence, in order of appearance, key and value as above; an
\* empty pair adds nothing, and an empty query gives the empty map.
C14_NonEmptyPairsCount ==
    Parsed
    => GetQueryValues(u[1])
           = ValuesOfPairs(u[1].Query,
                           {i \in DOMAIN PairsOf(u[1].Query) :
                                PairsOf(u[1].Query)[i] # <<>>})

C14_Witness ==
    /\ Parsed
    /\ rawURL = <<"h", "t", "t", "p", ":", "/", "/", "h", "/", "?", "a", "=", "1", "&", "a", "=", "2", "&", "b">>
    /\ u[1].Query = <<"a", "=", "1", "&", "a", "=", "2", "&", "b">>
    /\ DOMAIN GetQueryValues(u[1]) = {<<"a">>, <<"b">>}
    /\ GetQueryValues(u[1])[<<"a">>] = <<<<"1">>, <<"2">>>>
    /\ GetQueryValues(u[1])[<<"b">>] = <<<<>>>>

\* the components two parse results are compared on
SameComponents(a, b) ==
    /\ a.Scheme = b.Scheme /\ a.Opaque = b.Opaque /\ a.User = b.User
    /\ a.Host = b.Host /\ a.Hostname = b.Hostname /\ a.Port = b.Port
    /\ a.Path = b.Path /\ a.Query = b.Query /\ a.Fragment = b.Fragment

\* parsing the text full with the same options succeeds and gives the
\* components of u again
ReparsesTo(full, url) ==
    /\ RawURLParseWithOptions(full, opts).err = ErrNil
    /\ SameComponents(RawURLParseWithOptions(full, opts).url[1], url)

\* C15: for every input with a non-empty path that parses successfully,
\* parsing the recomposed full URL (String() / GetRawFullURL()) with the same
\* options succeeds and yields the same Scheme, Opaque, userinfo, Host,
\* Hostname, Port, Path, Query and Fragment.
C15_IdempotentRecomposition ==
    (Parsed /\ ~OpaqueForm(rawURL) /\ TailText(rawURL) # <<>>)
    => /\ ReparsesTo(String(u[1]), u[1])
       /\ ReparsesTo(GetRawFullURL(u[1]), u[1])

\* the last mutator call made on u
LastOp == ops[Len(ops)]
Mutated == pc = "parsed" /\ ops # <<>>

\* Path + "?" + Query (if any) + "#" + Fragment (if any), from the fields
DerivedRequestURI(url) ==
    url.Path \o (IF url.Query = <<>> THEN <<>> ELSE <<"?">> \o url.Query)
             \o (IF url.Fragment = <<>> THEN <<>> ELSE <<"#">> \o url.Fragment)

\* a Path, Query or Fragment update was made and RawURI was not set after it
ClearedAndNotSetAgain ==
    \E i \in 1..Len(ops) :
        /\ ops[i].component \in {Path, Query, Fragment}
        /\ \A j \in (i + 1)..Len(ops) : ops[j].component # RawURI

\* C16: after SetRawRequestURI(x), an UpdateRawURL on Path, Query or Fragment
\* clears the override: GetRawRequestURI() is the value derived from the
\* current Path, Query and Fragment, until RawURI is set again.
C16_PathQueryFragmentClearOverride ==
    (pc = "parsed" /\ ClearedAndNotSetAgain)
    => /\ u[1].RawRequestURI = <<>>
       /\ GetRawRequestURI(u[1]) = DerivedRequestURI(u[1])

C16_Witness ==
    /\ pc = "parsed"
    /\ Len(ops) = 2
    /\ ops[1] = [component |-> RawURI, value |-> <<"/", "r">>]
    /\ ops[2] = [component |-> Query, value |-> <<"k">>]
    /\ rawURL = <<"s", ":", "/", "/", "h", "/", "p">>
    /\ GetRawRequestURI(u[1]) = <<"/", "p", "?", "k">>

\* C17 (as claimed): an UpdateRawURL call on any component other than
\* RawURI leaves the RawRequestURI override cleared; only a call on RawURI
\* leaves it set.
C17_EveryUpdateClears ==
    Mutated =>
        IF LastOp.component = RawURI
        THEN u[1].RawRequestURI = LastOp.value
        ELSE u[1].RawRequestURI = <<>>

\* C17 (amended): an UpdateRawURL call on Path, Query or Fragment leaves
\* RawRequestURI cleared; a call on Scheme, Username, Password, Host or Port
\* leaves RawRequestURI as it was; a call on RawURI sets it to the new value.
C17_OnlyPathQueryFragmentClear ==
    [][(pc = "parsed" /\ Len(ops') = Len(ops) + 1)
       => LET op == ops'[Len(ops')]
          IN  IF op.component \in {Path, Query, Fragment}
              THEN u'[1].RawRequestURI = <<>>
              ELSE IF op.component = RawURI
              THEN u'[1].RawRequestURI = op.value
              ELSE u'[1].RawRequestURI = u[1].RawRequestURI]_vars

C17_Witness ==
    /\ pc = "parsed"
    /\ Len(ops) = 2
    /\ ops[1] = [component |-> RawURI, value |-> <<"/", "r">>]
    /\ ops[2] = [component |-> Host, value |-> <<"b">>]
    /\ u[1].RawRequestURI = <<"/", "r">>

\* an override is in force: RawURI was set, and neither Path, Query,
\* Fragment nor RawURI was updated after that call
OverrideSetAt(i) ==
    /\ ops[i].component = RawURI
    /\ \A j \in (i + 1)..Len(ops) :
           ops[j].component \notin {Path, Query, Fragment, RawURI}

\* C18 (as claimed): GetRawRequestURI() returns the override verbatim
\* whenever it has been set, for every value, the empty string included.
C18_OverrideVerbatim ==
    pc = "parsed" =>
        \A i \in 1..Len(ops) :
            OverrideSetAt(i) => GetRawRequestURI(u[1]) = ops[i].value

\* C18 (amended): GetRawRequestURI() returns the override verbatim whenever
\* it has been set to a non-empty value; an override set to the empty string
\* is the same as no override, and GetRawRequestURI() returns the value
\* derived from Path, Query and Fragment.
C18_NonEmptyOverrideVerbatim ==
    pc = "parsed" =>
        \A i \in 1..Len(ops) :
            OverrideSetAt(i) =>
                GetRawRequestURI(u[1]) =
                    IF ops[i].value # <<>> THEN ops[i].value
                    ELSE DerivedRequestURI(u[1])

C18_Witness ==
    /\ pc = "parsed"
    /\ Len(ops) = 2
    /\ ops[1] = [component |-> RawURI, value |-> <<"/", "r">>]
    /\ ops[2] = [component |-> Scheme, value |-> <<"t">>]
    /\ rawURL = <<"s", ":", "/", "/", "h", "/", "p">>
    /\ GetRawRequestURI(u[1]) = <<"/", "r">>

\* the host/port split of a host text, as the parser makes it
HostnameOfHost(host) == SplitHostnamePort(host).Hostname
PortOfHost(host) == SplitHostnamePort(host).Port

\* C19: UpdateRawURL(Host, h) keeps the port split from Host, and
\* UpdateRawURL(Port, p) keeps the hostname split from Host.
C19_HostPortPreserveEachOther ==
    [][(pc = "parsed" /\ Len(ops') = Len(ops) + 1)
       => LET op == ops'[Len(ops')]
          IN  /\ op.component = Host
                    => PortOfHost(u'[1].Host) = PortOfHost(u[1].Host)
              /\ op.component = Port
                    => HostnameOfHost(u'[1].Host) = HostnameOfHost(u[1].Host)]_vars

\* C20: after a successful parse and any Host / Port updates, the stored
\* Hostname and Port are the host/port split of the stored Host.
C20_StoredSplitConsistent ==
    (pc = "parsed" /\ \A i \in 1..Len(ops) : ops[i].component \in {Host, Port})
    => /\ u[1].Hostname = HostnameOfHost(u[1].Host)
       /\ u[1].Port = PortOfHost(u[1].Host)

\* the i-th mutator call is the last one that targets Password
LastPasswordAt(i) ==
    /\ ops[i].component = Password
    /\ \A j \in (i + 1)..Len(ops) : ops[j].component # Password

\* C21: UpdateRawURL(Password, p) sets passwordSet for every p, the empty
\* string included, creating the userinfo when absent; the recomposed
\* authority is then username ":" p "@" host, and no later update of another
\* component resets passwordSet.
C21_PasswordUpdateSetsFlag ==
    pc = "parsed" =>
        \A i \in 1..Len(ops) :
            LastPasswordAt(i) =>
                /\ u[1].User # NilUser
                /\ u[1].User[1].passwordSet
                /\ u[1].User[1].password = ops[i].value
                /\ GetAuthority(u[1]) =
                       u[1].User[1].username \o <<":">> \o ops[i].value
                           \o <<"@">> \o u[1].Host
                /\ GetRawAuthority(u[1]) = GetAuthority(u[1])

C21_Witness ==
    /\ pc = "parsed"
    /\ rawURL = <<"s", ":", "/", "/", "h", "/", "p">>
    /\ ops = <<[component |-> Password, value |-> <<>>],
               [component |-> Username, value |-> <<"v">>]>>
    /\ GetAuthority(u[1]) = <<"v", ":", "@", "h">>

\* C22: UpdateRawURL with a component tag outside the declared set fails
\* with an invalid-component error and leaves every field unchanged.
C22_UnknownComponentFails ==
    [][(pc = "parsed" /\ Len(ops') = Len(ops) + 1
            /\ ops'[Len(ops')].component \notin URLComponents)
       => (err' # ErrNil /\ u' = u)]_vars

\* the path as the full URL shows it: "/" in place of an empty Path
DisplayPath(url) == IF url.Path = <<>> THEN <<"/">> ELSE url.Path

\* scheme "://" (if any) + authority + display path + "?" query (if any)
\* + "#" fragment (if any)
FullURLOf(url) ==
    (IF url.Scheme = <<>> THEN <<>> ELSE url.Scheme \o <<":", "/", "/">>)
    \o GetAuthority(url)
    \o DisplayPath(url)
    \o (IF url.Query = <<>> THEN <<>> ELSE <<"?">> \o url.Query)
    \o (IF url.Fragment = <<>> THEN <<>> ELSE <<"#">> \o url.Fragment)

\* C23: after a non-opaque parse and any UpdateRawURL(Path, p), the
\* recomposed full URL (String() and GetRawFullURL()) applies exactly one
\* normalization: an empty Path is written as "/", any other Path unchanged.
C23_OneNormalization ==
    (pc = "parsed" /\ ~OpaqueForm(rawURL)
        /\ \A i \in 1..Len(ops) : ops[i].component = Path)
    => /\ String(u[1]) = FullURLOf(u[1])
       /\ GetRawFullURL(u[1]) = FullURLOf(u[1])

\* the authority is directly followed by '?' or '#': the first of '/', '?'
\* and '#' behind the scheme delimiter is not '/'
NoSlashForm(s) ==
    /\ HasSchemeDelimiter(s)
    /\ PositionsOf(HierText(s), {"/", "?", "#"}) # {}
    /\ HierText(s)[Min(PositionsOf(HierText(s), {"/", "?", "#"}))] \in {"?", "#"}

\* C24: when the authority is directly followed by '?' or '#', Query is the
\* text after '?' up to '#', Fragment the text after '#', Host holds neither
\* '?' nor '#', Path is empty, and "https://example.com#" recomposes to
\* itself.
C24_QueryFragmentWithoutPath ==
    (Parsed /\ NoSlashForm(rawURL))
    => /\ u[1].Fragment = After(HierText(rawURL), {"#"})
       /\ u[1].Query = After(Before(HierText(rawURL), {"#"}), {"?"})
       /\ PositionsOf(u[1].Host, {"?", "#"}) = {}
       /\ u[1].Path = <<>>
       /\ rawURL = <<"h", "t", "t", "p", "s", ":", "/", "/", "e", "x", "a", "m", "p", "l", "e", ".", "c", "o", "m", "#">> => String(u[1]) = rawURL

\* an IPv4 address: digits and dots, a digit first, at least one dot
IPv4Text(h) ==
    /\ h # <<>>
    /\ h[1] \in Digits
    /\ \A i \in 1..Len(h) : h[i] \in Digits \cup {"."}
    /\ PositionsOf(h, {"."}) # {}

\* a bracketed IPv6 literal: '[' ... ']' with neither bracket, '/', '@', '?'
\* nor '#' inside
BracketedText(h) ==
    /\ Len(h) >= 2
    /\ h[1] = "[" /\ h[Len(h)] = "]"
    /\ \A i \in 2..(Len(h) - 1) : h[i] \notin {"[", "]", "/", "@", "?", "#"}

\* ':' and one or more digits, or nothing
OptionalNumericPort(p) ==
    \/ p = <<>>
    \/ /\ Len(p) >= 2
       /\ p[1] = ":"
       /\ \A i \in 2..Len(p) : p[i] \in Digits

\* a is an IP address host followed by an optional numeric port, cut at k
IPAuthorityCutAt(a, k) ==
    /\ IPv4Text(SubSeq(a, 1, k)) \/ BracketedText(SubSeq(a, 1, k))
    /\ OptionalNumericPort(SubSeq(a, k + 1, Len(a)))

\* the input is [scheme "://"] IP-authority path, the path without '?', '#'
IPAddressForm(s) ==
    /\ \E k \in 1..Len(AuthorityText(s)) : IPAuthorityCutAt(AuthorityText(s), k)
    /\ TailText(s) # <<>>
    /\ PositionsOf(TailText(s), {"?", "#"}) = {}

\* the digits of the port of an IP authority
IPPortDigits(a) ==
    LET k == CHOOSE k \in 1..Len(a) : IPAuthorityCutAt(a, k)
    IN  SubSeq(a, k + 2, Len(a))

\* C25: for every input, with or without a scheme, whose authority is an
\* IPv4 address or a bracketed IPv6 literal with an optional numeric port,
\* followed by a path, RawURLParse succeeds with Host = the whole authority,
\* Path = the path and GetPort() = the port.
C25_IPAddressHosts ==
    (Returned /\ opts = DefaultOptions /\ IPAddressForm(rawURL))
    => /\ pc = "parsed"
       /\ u[1].Host = AuthorityText(rawURL)
       /\ u[1].Path = TailText(rawURL)
       /\ GetPort(u[1]) = IPPortDigits(AuthorityText(rawURL))

\* the input is the base URL followed by a payload that starts with '/'
PayloadForm(s) == HasPrefix(s, BaseURL \o <<"/">>)
PayloadOf(s) == SubSeq(s, Len(BaseURL) + 1, Len(s))

ClosedBracket(s) ==
    HasPrefix(HostText(s), <<"[">>) /\ PositionsOf(HostText(s), {"]"}) # {}

\* the text of the host after its last ']'
BracketSuffix(s) ==
    SubSeq(HostText(s), Max(PositionsOf(HostText(s), {"]"})) + 1, Len(HostText(s)))

\* C27: for a bracketed host the text after the last ']' is never lost: a
\* ':' followed by digits only becomes Port; any other suffix stays in Host
\* and Port is empty.
C27_BracketSuffixKept ==
    (Parsed /\ ~OpaqueForm(rawURL) /\ ClosedBracket(rawURL))
    => /\ u[1].Host = HostText(rawURL)
       /\ u[1].Port =
              IF /\ BracketSuffix(rawURL) # <<>>
                 /\ BracketSuffix(rawURL)[1] = ":"
                 /\ \A i \in 2..Len(BracketSuffix(rawURL)) :
                        BracketSuffix(rawURL)[i] \in Digits
              THEN SubSeq(BracketSuffix(rawURL), 2, Len(BracketSuffix(rawURL)))
              ELSE <<>>

\* a and b agree on the named fields
SameFields(a, b, fields) == \A f \in fields : a[f] = b[f]

\* C28: each UpdateRawURL call is a single-field replace: a Scheme, Username
\* or Password update leaves Host, Hostname, Port, Path, Query, Fragment and
\* Opaque unchanged; a Host or Port update leaves Scheme, userinfo, Path,
\* Query and Fragment unchanged; a Path, Query or Fragment update leaves
\* Scheme, userinfo, Host and the two others unchanged; a RawURI update
\* leaves every parsed component unchanged.
C28_SingleFieldReplace ==
    [][(pc = "parsed" /\ Len(ops') = Len(ops) + 1)
       => LET op == ops'[Len(ops')]
              a == u[1]
              b == u'[1]
          IN  /\ op.component \in {Scheme, Username, Password}
                    => SameFields(a, b, {"Host", "Hostname", "Port", "Path",
                                         "Query", "Fragment", "Opaque"})
              /\ op.component \in {Host, Port}
                    => SameFields(a, b, {"Scheme", "User", "Path", "Query", "Fragment"})
              /\ op.component = Path
                    => /\ SameFields(a, b, {"Scheme", "User", "Host", "Query", "Fragment"})
                       /\ b.Path = op.value
              /\ op.component = Query
                    => /\ SameFields(a, b, {"Scheme", "User", "Host", "Path", "Fragment"})
                       /\ b.Query = op.value
              /\ op.component = Fragment
                    => /\ SameFields(a, b, {"Scheme", "User", "Host", "Path", "Query"})
                       /\ b.Fragment = op.value
              /\ op.component = RawURI
                    => SameFields(a, b, {"Scheme", "User", "Host", "Path",
                                         "Query", "Fragment"})]_vars

C28_Witness ==
    /\ pc = "parsed"
    /\ rawURL = <<"s", ":", "/", "/", "u", ":", "w", "@", "h", ":", "1", "/", "p", "?", "q", "#", "f">>
    /\ ops = <<[component |-> Path, value |-> <<"/", "n">>]>>
    /\ u[1].Path = <<"/", "n">>
    /\ u[1].Query = <<"q">>
    /\ u[1].Fragment = <<"f">>
    /\ u[1].Host = <<"h", ":", "1">>

\* C29: after a non-opaque parse and any UpdateRawURL calls none of which
\* targets RawURI, GetRawRequestURI() is Path + "?" Query (if any) + "#"
\* Fragment (if any) of the current fields, and GetRawAbsoluteURI() equals
\* String().
C29_RequestURINeverStale ==
    (pc = "parsed" /\ ~OpaqueForm(rawURL)
        /\ \A i \in 1..Len(ops) : ops[i].component # RawURI)
    => /\ GetRawRequestURI(u[1]) = DerivedRequestURI(u[1])
       /\ GetRawAbsoluteURI(u[1]) = String(u[1])

C29_Witness ==
    /\ pc = "parsed"
    /\ rawURL = <<"s", ":", "/", "/", "u", ":", "w", "@", "h", ":", "1", "/", "p", "?", "q", "#", "f">>
    /\ ops = <<[component |-> Scheme, value |-> <<"t">>],
               [component |-> Host, value |-> <<"b">>]>>
    /\ u[1].RawRequestURI = <<"/", "p", "?", "q", "#", "f">>
    /\ GetRawAbsoluteURI(u[1]) = <<"t", ":", "/", "/", "u", ":", "w", "@", "b", ":", "1", "/", "p", "?", "q", "#", "f">>

\* the remainder handed to the path/query/fragment step
PathRemainder == SplitAuthority(ParseScheme(rawURL, opts).remaining).remaining

=============================================================================
